---- MODULE Spec2Model ----
(***************************************************************************)
(* pc-sync: an Express server with a secret-protected POST /sync handler   *)
(* (Airtable read, then a Planning Center read authorised by a cached or   *)
(* refreshed OAuth access token) and the OAuth start / callback handlers.  *)
(*                                                                         *)
(* Strings are sequences of one-character strings.  The JavaScript value   *)
(* undefined is the one-element sequence Undefined, which is no string of  *)
(* the alphabet.  Every handler runs from one await to the next in one     *)
(* action.  The reply of the token endpoint is a message in flight: it     *)
(* arrives in the local that receives it (resp, tokenResponse) and the     *)
(* handler resumes in a later step.                                        *)
(***************************************************************************)
EXTENDS Integers, Sequences, FiniteSets, TLC

VARIABLES env, tokenCache, now, req

vars == <<env, tokenCache, now, req>>

(***************************************************************************)
(* Values                                                                  *)
(***************************************************************************)
Q == "\""
Undefined == <<"undefined">>
Null == <<"null">>

\* JavaScript truthiness of a string-or-undefined value.
Truthy(v) == v # Undefined /\ v # <<>>

\* An optional number (a JSON field that may be absent).
NoNum == [has |-> FALSE, num |-> 0]
Num(n) == [has |-> TRUE, num |-> n]

\* src/index.js:17-19: (v || "").replace(/^"|"$/g, "") removes one leading
\* and one trailing double quote; a lone quote is matched once.
stripQuotes(v) ==
  LET s == IF Truthy(v) THEN v ELSE <<>>
      s1 == IF s # <<>> /\ Head(s) = Q THEN Tail(s) ELSE s
  IN IF s1 # <<>> /\ s1[Len(s1)] = Q THEN SubSeq(s1, 1, Len(s1) - 1) ELSE s1

(***************************************************************************)
(* Bounds of the model                                                     *)
(***************************************************************************)
MaxTicks == 2
MaxRecordsReturned == 1

StartMs == 1000 * 1000
TickMs == 60 * 1000
Requests == {"A", "B"}

(***************************************************************************)
(* Program constants                                                       *)
(***************************************************************************)
SafetyMarginMs == 60000
DefaultExpiresIn == 3600
maxRecords == 5

(***************************************************************************)
(* Responses                                                               *)
(***************************************************************************)
NoRes == [status |-> 0, type |-> "none"]
JsonError(status, msg) ==
  [status |-> status, type |-> "json", ok |-> FALSE, error |-> msg]

MsgNoSecret == "Server misconfigured: SYNC_SECRET not set"
MsgUnauthorized == "Unauthorized"
MsgAirtableEnv == "Airtable environment variables not set"
MsgNoTable == "AIRTABLE_TABLE_NAME not set"
MsgNoRefreshCreds == "Missing PCO_APP_ID / PCO_SECRET (needed to refresh tokens)"
MsgNoRefreshToken == "Missing PCO_REFRESH_TOKEN (needed to refresh access token)"
MsgNoAccessToken == "Missing PCO_ACCESS_TOKEN (and no PCO_REFRESH_TOKEN to refresh)"
\* err.response?.data || err.message of a failed outbound call
MsgAirtableFailed == "airtable request failed"
MsgTokenFailed == "token request failed"
MsgEventsFailed == "events request failed"

(***************************************************************************)
(* Requests: the locals of one handler invocation                          *)
(***************************************************************************)
NotYet == <<"unset">>
NoResp == [ok |-> FALSE, data |-> [none |-> TRUE]]

IdleReq ==
  [kind |-> "idle", pc |-> "idle",
   providedSecret |-> Undefined, debug |-> Undefined, code |-> Undefined,
   records |-> -1, accessToken |-> NotYet, resp |-> NoResp,
   res |-> NoRes, sent |-> 0,
   airtableReqs |-> 0, tokenReqs |-> 0, eventsReqs |-> 0,
   airtable |-> "none", token |-> "none", events |-> "none"]

\* res.status(..).json(..) / res.send(..) / res.redirect(..) followed by return:
\* the response is written and the locals of the invocation are gone.
\* The request counters and the outcome of each stage stay on record.
Respond(q, response) ==
  [q EXCEPT !.res = response, !.sent = @ + 1, !.pc = "done",
            !.records = -1, !.accessToken = NotYet, !.resp = NoResp]

(***************************************************************************)
(* Token cache                                                             *)
(***************************************************************************)
\* src/index.js:171-176
InitTokenCache(e) ==
  [accessToken |-> stripQuotes(e.PCO_ACCESS_TOKEN),
   refreshToken |-> stripQuotes(e.PCO_REFRESH_TOKEN),
   expiresAtMs |-> 0]

\* src/index.js:225: the cached token is present and not expired
CacheFresh(cache, t) ==
  Truthy(cache.accessToken) /\ cache.expiresAtMs # 0 /\ t < cache.expiresAtMs

\* Mutant: the expiry check is dropped, a cached refresh token always refreshes.
getPcoAccessToken_AlwaysRefresh(cache, t) ==
  IF Truthy(cache.refreshToken) THEN "refresh"
  ELSE IF ~Truthy(cache.accessToken) THEN "throw"
  ELSE "fallback"

\* Mutant: the missing-token check is dropped, the empty token is returned.
getPcoAccessToken_NoThrow(cache, t) ==
  IF CacheFresh(cache, t) THEN "cached"
  ELSE IF Truthy(cache.refreshToken) THEN "refresh"
  ELSE "fallback"


\* Mutant: without a refresh token the call gives up instead of returning
\* the token of the environment.
getPcoAccessToken_NoFallback(cache, t) ==
  IF CacheFresh(cache, t) THEN "cached"
  ELSE IF Truthy(cache.refreshToken) THEN "refresh"
  ELSE "throw"

\* src/index.js:223-240: which branch getPcoAccessToken takes
getPcoAccessToken(cache, t) ==
  IF CacheFresh(cache, t) THEN "cached"
  ELSE IF Truthy(cache.refreshToken) THEN "refresh"
  ELSE IF ~Truthy(cache.accessToken) THEN "throw"
  ELSE "fallback"

\* src/index.js:179-187: the checks of refreshAccessToken before its request
refreshPrecheck(e, cache) ==
  IF ~Truthy(stripQuotes(e.PCO_APP_ID)) \/ ~Truthy(stripQuotes(e.PCO_SECRET))
  THEN MsgNoRefreshCreds
  ELSE IF ~Truthy(cache.refreshToken) THEN MsgNoRefreshToken
  ELSE "ok"

\* src/index.js:211: Number(expires_in || 3600) * 1000
LifetimeMs(expires_in) ==
  (IF expires_in.has /\ expires_in.num # 0 THEN expires_in.num
   ELSE DefaultExpiresIn) * 1000

\* Mutant: the 60 s safety margin is left out.
refreshAccessToken_NoMargin(cache, data, t) ==
  [accessToken |-> data.access_token,
   expiresAtMs |-> t + LifetimeMs(data.expires_in),
   refreshToken |->
     IF Truthy(data.refresh_token) /\ data.refresh_token # cache.refreshToken
     THEN data.refresh_token ELSE cache.refreshToken]


\* Mutant: the refresh token of the reply is never taken over.
refreshAccessToken_KeepsOld(cache, data, t) ==
  [accessToken |-> data.access_token,
   expiresAtMs |-> t + LifetimeMs(data.expires_in) - SafetyMarginMs,
   refreshToken |-> cache.refreshToken]

\* Mutant: the refresh token of the reply is stored even when it is absent.
refreshAccessToken_AlwaysReplaces(cache, data, t) ==
  [accessToken |-> data.access_token,
   expiresAtMs |-> t + LifetimeMs(data.expires_in) - SafetyMarginMs,
   refreshToken |-> data.refresh_token]

\* src/index.js:207-218: the cache after a successful refresh reply
refreshAccessToken(cache, data, t) ==
  [accessToken |-> data.access_token,
   expiresAtMs |-> t + LifetimeMs(data.expires_in) - SafetyMarginMs,
   refreshToken |->
     IF Truthy(data.refresh_token) /\ data.refresh_token # cache.refreshToken
     THEN data.refresh_token ELSE cache.refreshToken]

(***************************************************************************)
(* Replies of the outside world                                            *)
(***************************************************************************)
A0 == <<"a", "0">>
A1 == <<"a", "1">>
A2 == <<"a", "2">>
R0 == <<"r", "0">>
R1 == <<"r", "1">>

\* The JSON bodies the token endpoint answers with: every value of each field
\* occurs (a token absent, the cached refresh token R0 repeated, a new one;
\* expires_in absent, zero, two minutes).
TokenBody(a, r, e) == [access_token |-> a, refresh_token |-> r, expires_in |-> e]
TokenData ==
  {TokenBody(A1, Undefined, Num(120)), TokenBody(A2, Undefined, Num(120)),
   TokenBody(A2, R1, NoNum), TokenBody(A1, R0, Num(0)),
   TokenBody(Undefined, Undefined, Num(120)), TokenBody(Undefined, R1, NoNum)}

TokenReplies == {[ok |-> FALSE, data |-> [none |-> TRUE]]}
                \cup {[ok |-> TRUE, data |-> d] : d \in TokenData}

Min(a, b) == IF a < b THEN a ELSE b
RecordCounts == 0 .. Min(MaxRecordsReturned, maxRecords)
EventNames == {Undefined, <<"S">>}

(***************************************************************************)
(* POST /sync                                                              *)
(***************************************************************************)
\* src/index.js:148-158
getAirtableBase(e) ==
  IF ~Truthy(stripQuotes(e.AIRTABLE_API_KEY)) \/ ~Truthy(stripQuotes(e.AIRTABLE_BASE_ID))
  THEN MsgAirtableEnv ELSE "ok"

\* src/index.js:289-295: the catch block of the handler
SyncCatch(q, msg) == Respond(q, JsonError(500, msg))

\* Mutant: the header is compared before the configuration is checked.
SecretGate_CompareFirst(expectedSecret, providedSecret) ==
  IF providedSecret # expectedSecret THEN "401"
  ELSE IF ~Truthy(expectedSecret) THEN "500"
  ELSE "pass"

\* Mutant: a request without the header passes.
SecretGate_AbsentPasses(expectedSecret, providedSecret) ==
  IF ~Truthy(expectedSecret) THEN "500"
  ELSE IF Truthy(providedSecret) /\ providedSecret # expectedSecret THEN "401"
  ELSE "pass"

\* src/index.js:255-264: "500", "401" or "pass"
SecretGate(expectedSecret, providedSecret) ==
  IF ~Truthy(expectedSecret) THEN "500"
  ELSE IF providedSecret # expectedSecret THEN "401"
  ELSE "pass"

\* Mutant: the token request is issued together with the Airtable read.
SyncStart_PrefetchToken(q, e) ==
  IF getAirtableBase(e) # "ok" THEN SyncCatch(q, getAirtableBase(e))
  ELSE IF ~Truthy(stripQuotes(e.AIRTABLE_TABLE_NAME)) THEN SyncCatch(q, MsgNoTable)
  ELSE [q EXCEPT !.airtableReqs = @ + 1, !.airtable = "sent", !.pc = "airtable",
                 !.tokenReqs = @ + 1]

\* src/index.js:266-272: from the try to the Airtable request
SyncStart(q, e) ==
  IF getAirtableBase(e) # "ok" THEN SyncCatch(q, getAirtableBase(e))
  ELSE IF ~Truthy(stripQuotes(e.AIRTABLE_TABLE_NAME)) THEN SyncCatch(q, MsgNoTable)
  ELSE [q EXCEPT !.airtableReqs = @ + 1, !.airtable = "sent", !.pc = "airtable"]

\* Mutant: the Airtable read is issued before the header is compared.
SyncHandler_ReadsBeforeGate(q, e) ==
  LET gate == SecretGate(stripQuotes(e.SYNC_SECRET), q.providedSecret) IN
  IF gate = "500" THEN Respond(q, JsonError(500, MsgNoSecret))
  ELSE IF gate = "401"
  THEN Respond([q EXCEPT !.airtableReqs = @ + 1], JsonError(401, MsgUnauthorized))
  ELSE SyncStart(q, e)

\* Mutant: the expected secret is read without stripQuotes.
SyncHandler_RawSecret(q, e) ==
  LET gate == SecretGate(e.SYNC_SECRET, q.providedSecret) IN
  IF gate = "500" THEN Respond(q, JsonError(500, MsgNoSecret))
  ELSE IF gate = "401" THEN Respond(q, JsonError(401, MsgUnauthorized))
  ELSE SyncStart(q, e)

\* src/index.js:255-272
SyncHandler(q, e) ==
  LET gate == SecretGate(stripQuotes(e.SYNC_SECRET), q.providedSecret) IN
  IF gate = "500" THEN Respond(q, JsonError(500, MsgNoSecret))
  ELSE IF gate = "401" THEN Respond(q, JsonError(401, MsgUnauthorized))
  ELSE SyncStart(q, e)

PostSync(r, header) ==
  /\ req[r].pc = "idle"
  /\ req' = [req EXCEPT ![r] =
       SyncHandler([IdleReq EXCEPT !.kind = "sync", !.providedSecret = header], env)]
  /\ UNCHANGED <<env, tokenCache, now>>

\* src/index.js:243-247: pcoGet once getPcoAccessToken has returned
SendEvents(q, token) ==
  [q EXCEPT !.accessToken = token, !.eventsReqs = @ + 1,
            !.events = "sent", !.pc = "events"]

\* Mutant: when the refresh cannot be started the stale token is used.
pcoGet_StaleOnThrow(q, e, cache, t) ==
  LET branch == getPcoAccessToken(cache, t) IN
  IF branch \in {"cached", "fallback"}
  THEN SendEvents([q EXCEPT !.token = branch], cache.accessToken)
  ELSE IF branch = "throw"
  THEN SyncCatch([q EXCEPT !.token = "threw"], MsgNoAccessToken)
  ELSE IF refreshPrecheck(e, cache) # "ok"
  THEN SendEvents([q EXCEPT !.token = "threw"], cache.accessToken)
  ELSE [q EXCEPT !.tokenReqs = @ + 1, !.token = "sent", !.pc = "refresh"]

\* src/index.js:242-247 with 223-240 and 179-205: pcoGet up to its first
\* outbound request (the token request when a refresh is due, the events
\* request otherwise)
pcoGet(q, e, cache, t) ==
  LET branch == getPcoAccessToken(cache, t) IN
  IF branch \in {"cached", "fallback"}
  THEN SendEvents([q EXCEPT !.token = branch], cache.accessToken)
  ELSE IF branch = "throw"
  THEN SyncCatch([q EXCEPT !.token = "threw"], MsgNoAccessToken)
  ELSE IF refreshPrecheck(e, cache) # "ok"
  THEN SyncCatch([q EXCEPT !.token = "threw"], refreshPrecheck(e, cache))
  ELSE [q EXCEPT !.tokenReqs = @ + 1, !.token = "sent", !.pc = "refresh"]

\* src/index.js:272-278: the Airtable read settles
AirtableSettles(r, ok, n) ==
  /\ req[r].pc = "airtable"
  /\ req' = [req EXCEPT ![r] =
       IF ~ok THEN SyncCatch([@ EXCEPT !.airtable = "failed"], MsgAirtableFailed)
       ELSE pcoGet([@ EXCEPT !.airtable = "ok", !.records = n],
                   env, tokenCache, now)]
  /\ UNCHANGED <<env, tokenCache, now>>

\* src/index.js:196-205 and 105-114: the token endpoint answers an
\* outstanding request (a refresh or a code exchange)
TokenEndpointReplies(r, reply) ==
  /\ req[r].pc \in {"refresh", "exchange"}
  /\ req' = [req EXCEPT ![r] =
       [@ EXCEPT !.resp = reply,
                 !.pc = IF @ = "refresh" THEN "refreshReplied" ELSE "exchangeReplied"]]
  /\ UNCHANGED <<env, tokenCache, now>>



\* Mutant: when the refresh request fails the stale cached token is used.
RefreshResumes_StaleOnFailure(r) ==
  /\ req[r].pc = "refreshReplied"
  /\ IF ~req[r].resp.ok
     THEN /\ req' = [req EXCEPT ![r] =
               SendEvents([@ EXCEPT !.token = "failed", !.resp = NoResp],
                          tokenCache.accessToken)]
          /\ UNCHANGED tokenCache
     ELSE /\ tokenCache' = refreshAccessToken(tokenCache, req[r].resp.data, now)
          /\ req' = [req EXCEPT ![r] =
               SendEvents([@ EXCEPT !.token = "refreshed", !.resp = NoResp],
                          tokenCache'.accessToken)]
  /\ UNCHANGED <<env, now>>

\* Mutant: a refresh that finds the cache already renewed by another request
\* keeps that value (the first writer wins).
RefreshResumes_FirstWriterWins(r) ==
  /\ req[r].pc = "refreshReplied"
  /\ IF ~req[r].resp.ok
     THEN /\ req' = [req EXCEPT ![r] =
               SyncCatch([@ EXCEPT !.token = "failed"], MsgTokenFailed)]
          /\ UNCHANGED tokenCache
     ELSE /\ tokenCache' =
               IF CacheFresh(tokenCache, now) THEN tokenCache
               ELSE refreshAccessToken(tokenCache, req[r].resp.data, now)
          /\ req' = [req EXCEPT ![r] =
               SendEvents([@ EXCEPT !.token = "refreshed", !.resp = NoResp],
                          tokenCache'.accessToken)]
  /\ UNCHANGED <<env, now>>

\* src/index.js:207-220, 231, 243-247: refreshAccessToken resumes
RefreshResumes(r) ==
  /\ req[r].pc = "refreshReplied"
  /\ IF ~req[r].resp.ok
     THEN /\ req' = [req EXCEPT ![r] =
               SyncCatch([@ EXCEPT !.token = "failed"], MsgTokenFailed)]
          /\ UNCHANGED tokenCache
     ELSE /\ tokenCache' = refreshAccessToken(tokenCache, req[r].resp.data, now)
          /\ req' = [req EXCEPT ![r] =
               SendEvents([@ EXCEPT !.token = "refreshed", !.resp = NoResp],
                          tokenCache'.accessToken)]
  /\ UNCHANGED <<env, now>>

\* src/index.js:278-288: the events read settles
EventsSettles(r, ok, name) ==
  /\ req[r].pc = "events"
  /\ req' = [req EXCEPT ![r] =
       IF ~ok THEN SyncCatch([@ EXCEPT !.events = "failed"], MsgEventsFailed)
       ELSE Respond([@ EXCEPT !.events = "ok"],
                    [status |-> 200, type |-> "json", ok |-> TRUE,
                     recordCount |-> @.records,
                     firstEventName |-> IF Truthy(name) THEN name ELSE Null])]
  /\ UNCHANGED <<env, tokenCache, now>>

(***************************************************************************)
(* GET /oauth/start                                                        *)
(***************************************************************************)
\* URLSearchParams.toString(): a double quote is percent-encoded, letters
\* are kept.
RECURSIVE UrlEncode(_)
UrlEncode(s) ==
  IF s = <<>> THEN <<>>
  ELSE (IF Head(s) = Q THEN <<"%", "2", "2">> ELSE <<Head(s)>>) \o UrlEncode(Tail(s))

\* src/index.js:65-73
AuthUrl(appId, redirectUri, t) ==
  [path |-> "https://api.planningcenteronline.com/oauth/authorize",
   client_id |-> UrlEncode(appId), redirect_uri |-> UrlEncode(redirectUri),
   response_type |-> "code", scope |-> "calendar", state |-> t]

\* Mutant: the handler fails only when both settings are missing.
OAuthStartHandler_BothMissing(q, e, t) ==
  LET PCO_APP_ID == stripQuotes(e.PCO_APP_ID)
      PCO_REDIRECT_URI == stripQuotes(e.PCO_REDIRECT_URI)
  IN IF ~Truthy(PCO_APP_ID) /\ ~Truthy(PCO_REDIRECT_URI)
     THEN Respond(q, [status |-> 500, type |-> "json", ok |-> FALSE,
                      error |-> "Missing OAuth env vars",
                      hasPCO_APP_ID |-> Truthy(PCO_APP_ID),
                      hasPCO_REDIRECT_URI |-> Truthy(PCO_REDIRECT_URI)])
     ELSE IF q.debug = <<"1">>
     THEN Respond(q, [status |-> 200, type |-> "json",
                      authUrl |-> AuthUrl(PCO_APP_ID, PCO_REDIRECT_URI, t)])
     ELSE Respond(q, [status |-> 302, type |-> "redirect",
                      location |-> AuthUrl(PCO_APP_ID, PCO_REDIRECT_URI, t)])

\* Mutant: any non-empty debug value selects the JSON answer.
OAuthStartHandler_DebugTruthy(q, e, t) ==
  LET PCO_APP_ID == stripQuotes(e.PCO_APP_ID)
      PCO_REDIRECT_URI == stripQuotes(e.PCO_REDIRECT_URI)
  IN IF ~Truthy(PCO_APP_ID) \/ ~Truthy(PCO_REDIRECT_URI)
     THEN Respond(q, [status |-> 500, type |-> "json", ok |-> FALSE,
                      error |-> "Missing OAuth env vars",
                      hasPCO_APP_ID |-> Truthy(PCO_APP_ID),
                      hasPCO_REDIRECT_URI |-> Truthy(PCO_REDIRECT_URI)])
     ELSE IF Truthy(q.debug)
     THEN Respond(q, [status |-> 200, type |-> "json",
                      authUrl |-> AuthUrl(PCO_APP_ID, PCO_REDIRECT_URI, t)])
     ELSE Respond(q, [status |-> 302, type |-> "redirect",
                      location |-> AuthUrl(PCO_APP_ID, PCO_REDIRECT_URI, t)])

\* src/index.js:52-81
OAuthStartHandler(q, e, t) ==
  LET PCO_APP_ID == stripQuotes(e.PCO_APP_ID)
      PCO_REDIRECT_URI == stripQuotes(e.PCO_REDIRECT_URI)
  IN IF ~Truthy(PCO_APP_ID) \/ ~Truthy(PCO_REDIRECT_URI)
     THEN Respond(q, [status |-> 500, type |-> "json", ok |-> FALSE,
                      error |-> "Missing OAuth env vars",
                      hasPCO_APP_ID |-> Truthy(PCO_APP_ID),
                      hasPCO_REDIRECT_URI |-> Truthy(PCO_REDIRECT_URI)])
     ELSE IF q.debug = <<"1">>
     THEN Respond(q, [status |-> 200, type |-> "json",
                      authUrl |-> AuthUrl(PCO_APP_ID, PCO_REDIRECT_URI, t)])
     ELSE Respond(q, [status |-> 302, type |-> "redirect",
                      location |-> AuthUrl(PCO_APP_ID, PCO_REDIRECT_URI, t)])

GetOAuthStart(r, debug) ==
  /\ req[r].pc = "idle"
  /\ req' = [req EXCEPT ![r] =
       OAuthStartHandler([IdleReq EXCEPT !.kind = "start", !.debug = debug], env, now)]
  /\ UNCHANGED <<env, tokenCache, now>>

(***************************************************************************)
(* GET /oauth/callback                                                     *)
(***************************************************************************)
Text(status, body) == [status |-> status, type |-> "text", body |-> body]


\* Mutant: the code is not checked before the exchange.
OAuthCallbackHandler_NoCodeCheck(q, e) ==
  IF \/ ~Truthy(stripQuotes(e.PCO_APP_ID))
     \/ ~Truthy(stripQuotes(e.PCO_SECRET))
     \/ ~Truthy(stripQuotes(e.PCO_REDIRECT_URI))
  THEN Respond(q, Text(500, "Server missing PCO_APP_ID / PCO_SECRET / PCO_REDIRECT_URI"))
  ELSE [q EXCEPT !.tokenReqs = @ + 1, !.token = "sent", !.pc = "exchange"]

\* src/index.js:84-114: up to the code exchange request
OAuthCallbackHandler(q, e) ==
  IF ~Truthy(q.code) THEN Respond(q, Text(400, "Missing authorization code"))
  ELSE IF \/ ~Truthy(stripQuotes(e.PCO_APP_ID))
          \/ ~Truthy(stripQuotes(e.PCO_SECRET))
          \/ ~Truthy(stripQuotes(e.PCO_REDIRECT_URI))
  THEN Respond(q, Text(500, "Server missing PCO_APP_ID / PCO_SECRET / PCO_REDIRECT_URI"))
  ELSE [q EXCEPT !.tokenReqs = @ + 1, !.token = "sent", !.pc = "exchange"]

GetOAuthCallback(r, code) ==
  /\ req[r].pc = "idle"
  /\ req' = [req EXCEPT ![r] =
       OAuthCallbackHandler([IdleReq EXCEPT !.kind = "callback", !.code = code], env)]
  /\ UNCHANGED <<env, tokenCache, now>>

\* src/index.js:116-140: the handler after the exchange has settled
OAuthCallbackResult(q, e) ==
  IF ~q.resp.ok THEN Respond([q EXCEPT !.token = "failed"], Text(500, "OAuth failed"))
  ELSE IF stripQuotes(e.OAUTH_SHOW_TOKENS) = <<"t", "r", "u", "e">>
  THEN Respond([q EXCEPT !.token = "exchanged"],
               [status |-> 200, type |-> "html", body |-> "OAuth Successful",
                PCO_ACCESS_TOKEN |-> q.resp.data.access_token,
                PCO_REFRESH_TOKEN |-> q.resp.data.refresh_token,
                PCO_TOKEN_EXPIRES_IN |-> q.resp.data.expires_in])
  ELSE Respond([q EXCEPT !.token = "exchanged"],
               Text(200, "OAuth successful. You can close this window."))

\* Mutant: the callback stores the issued pair in the cache.
ExchangeResumes_Stores(r) ==
  /\ req[r].pc = "exchangeReplied"
  /\ req' = [req EXCEPT ![r] = OAuthCallbackResult(@, env)]
  /\ tokenCache' =
       IF req[r].resp.ok
       THEN [tokenCache EXCEPT !.accessToken = req[r].resp.data.access_token,
                               !.refreshToken = req[r].resp.data.refresh_token]
       ELSE tokenCache
  /\ UNCHANGED <<env, now>>

\* src/index.js:116-140
ExchangeResumes(r) ==
  /\ req[r].pc = "exchangeReplied"
  /\ req' = [req EXCEPT ![r] = OAuthCallbackResult(@, env)]
  /\ UNCHANGED <<env, tokenCache, now>>

(***************************************************************************)
(* Environment                                                             *)
(***************************************************************************)
\* The response has been written and the handler has returned.
Close(r) ==
  /\ req[r].pc = "done"
  /\ req' = [req EXCEPT ![r] = IdleReq]
  /\ UNCHANGED <<env, tokenCache, now>>

\* Date.now() advances.
Tick ==
  /\ now < StartMs + MaxTicks * TickMs
  /\ now' = now + TickMs
  /\ UNCHANGED <<env, tokenCache, req>>

Headers == {Undefined, <<>>, <<"s">>, <<Q, "s", Q>>}
Debugs == {Undefined, <<"1">>, <<"1", "1">>, <<"0">>}
Codes == {Undefined, <<>>, <<"c">>}

FullEnv ==
  [SYNC_SECRET |-> <<Q, "s", Q>>,
   PCO_APP_ID |-> <<"i">>, PCO_SECRET |-> <<"k">>, PCO_REDIRECT_URI |-> <<"u">>,
   AIRTABLE_API_KEY |-> <<"y">>, AIRTABLE_BASE_ID |-> <<"b">>,
   AIRTABLE_TABLE_NAME |-> <<"t">>,
   PCO_ACCESS_TOKEN |-> A0, PCO_REFRESH_TOKEN |-> R0,
   OAUTH_SHOW_TOKENS |-> Undefined]

\* The deployments the model starts from: the full configuration, and the
\* configurations with one setting (or one pair of settings) absent, empty
\* or quoted.
NoRefreshEnv == [FullEnv EXCEPT !.PCO_REFRESH_TOKEN = Undefined]
Envs ==
  {FullEnv, NoRefreshEnv}
  \cup {[FullEnv EXCEPT !.SYNC_SECRET = v] : v \in {Undefined, <<>>, <<Q>>, <<Q, Q>>}}
  \cup {[NoRefreshEnv EXCEPT !.SYNC_SECRET = <<"s">>]}
  \cup {[NoRefreshEnv EXCEPT !.PCO_APP_ID = a, !.PCO_REDIRECT_URI = u] :
          a \in {Undefined, <<Q, Q>>, <<Q, "i">>},
          u \in {Undefined, <<Q>>, <<"u", Q, "v">>}}
  \cup {[FullEnv EXCEPT !.PCO_APP_ID = Undefined],
        [FullEnv EXCEPT !.PCO_SECRET = Undefined]}
  \cup {[FullEnv EXCEPT !.AIRTABLE_API_KEY = Undefined],
        [FullEnv EXCEPT !.AIRTABLE_BASE_ID = <<Q, Q>>],
        [FullEnv EXCEPT !.AIRTABLE_TABLE_NAME = <<>>]}
  \cup {[FullEnv EXCEPT !.PCO_ACCESS_TOKEN = a, !.PCO_REFRESH_TOKEN = Undefined] :
          a \in {Undefined, <<Q, Q>>}}
  \cup {[NoRefreshEnv EXCEPT !.OAUTH_SHOW_TOKENS = <<"t", "r", "u", "e">>]}

\* src/index.js:171-176: the module is loaded once, at process start
Init ==
  /\ env \in Envs
  /\ tokenCache = InitTokenCache(env)
  /\ now = StartMs
  /\ req = [r \in Requests |-> IdleReq]

Next ==
  \/ \E r \in Requests, h \in Headers : PostSync(r, h)
  \/ \E r \in Requests, ok \in BOOLEAN, n \in RecordCounts : AirtableSettles(r, ok, n)
  \/ \E r \in Requests, reply \in TokenReplies : TokenEndpointReplies(r, reply)
  \/ \E r \in Requests : RefreshResumes(r)
  \/ \E r \in Requests, ok \in BOOLEAN, name \in EventNames : EventsSettles(r, ok, name)
  \/ \E r \in Requests, d \in Debugs : GetOAuthStart(r, d)
  \/ \E r \in Requests, c \in Codes : GetOAuthCallback(r, c)
  \/ \E r \in Requests : ExchangeResumes(r)
  \/ \E r \in Requests : Close(r)
  \/ Tick

Spec == Init /\ [][Next]_vars

(***************************************************************************)
(* Properties                                                              *)
(***************************************************************************)
\* The step of request r in which pcoGet calls getPcoAccessToken: the
\* Airtable read of r settles with a page of records.
CallsGetPcoAccessToken(r) == req[r].pc = "airtable" /\ req'[r].airtable = "ok"

\* C1: when accessToken is non-empty and the current time is strictly before
\* a non-zero expiresAtMs, getPcoAccessToken returns exactly the cached
\* accessToken, the request has sent nothing to the token endpoint, and
\* tokenCache is unchanged.
C1_FreshTokenReturnedWithoutRequest ==
  [][\A r \in Requests :
      (/\ CallsGetPcoAccessToken(r)
       /\ tokenCache.accessToken \notin {Undefined, <<>>}
       /\ tokenCache.expiresAtMs # 0
       /\ now < tokenCache.expiresAtMs)
      => /\ req'[r].pc = "events"
         /\ req'[r].accessToken = tokenCache.accessToken
         /\ req'[r].tokenReqs = 0
         /\ tokenCache' = tokenCache]_vars

\* C1 witness: a request holds the cached token of a cache that has not
\* expired, and has made no token request.
C1_Witness ==
  \E r \in Requests :
    /\ req[r].pc = "events" /\ req[r].token = "cached" /\ req[r].tokenReqs = 0
    /\ tokenCache.expiresAtMs # 0 /\ now < tokenCache.expiresAtMs
    /\ req[r].accessToken = tokenCache.accessToken

\* C3: when tokenCache holds neither an access token nor a refresh token,
\* getPcoAccessToken fails (the request ends with the 500 that carries its
\* error), no request goes to the token endpoint or the events service, and
\* tokenCache is unchanged.
C3_NoCredentialsFails ==
  [][\A r \in Requests :
      (/\ CallsGetPcoAccessToken(r)
       /\ tokenCache.accessToken \in {Undefined, <<>>}
       /\ tokenCache.refreshToken \in {Undefined, <<>>})
      => /\ req'[r].pc = "done"
         /\ req'[r].res = JsonError(500, MsgNoAccessToken)
         /\ req'[r].tokenReqs = 0 /\ req'[r].eventsReqs = 0
         /\ tokenCache' = tokenCache]_vars

\* C3 witness: a sync request has ended on the missing-token error with the
\* cache empty.
C3_Witness ==
  \E r \in Requests :
    /\ req[r].pc = "done" /\ req[r].token = "threw"
    /\ req[r].res = JsonError(500, MsgNoAccessToken)
    /\ tokenCache.accessToken = <<>> /\ tokenCache.refreshToken = <<>>

\* A setting is present: it is not absent and not empty once wrapping quotes
\* are removed.
IsSet(v) == v \notin {Undefined, <<>>, <<Q>>, <<Q, Q>>}

\* The step in which the refresh of request r resumes on a 2xx reply.
RefreshSucceeds(r) ==
  req[r].pc = "refreshReplied" /\ req[r].resp.ok /\ req'[r].pc = "events"

\* C2 as stated: a call that finds the cache expired (or expiresAtMs 0) with a
\* refresh token cached sends one refresh request, and when its reply is 2xx
\* the call returns the reply's access token, stores it, and sets expiresAtMs
\* to now + the reported lifetime in ms - 60000.
C2_Original ==
  [][\A r \in Requests :
      RefreshSucceeds(r) /\ req[r].resp.data.expires_in.has
      => /\ req'[r].tokenReqs = 1
         /\ req'[r].accessToken = req[r].resp.data.access_token
         /\ tokenCache'.accessToken = req[r].resp.data.access_token
         /\ tokenCache'.expiresAtMs =
              now + req[r].resp.data.expires_in.num * 1000 - 60000]_vars

\* C2 amended: as C2, with the lifetime being the reported one when the reply
\* reports a non-zero expires_in and 3600 s when it reports none or zero; now
\* is the time at which the reply is processed.
C2_RefreshStoresTokenAndExpiry ==
  [][\A r \in Requests :
      /\ (/\ CallsGetPcoAccessToken(r)
          /\ (tokenCache.expiresAtMs = 0 \/ now >= tokenCache.expiresAtMs)
          /\ tokenCache.refreshToken \notin {Undefined, <<>>}
          /\ IsSet(env.PCO_APP_ID) /\ IsSet(env.PCO_SECRET))
         => /\ req'[r].pc = "refresh" /\ req'[r].tokenReqs = 1
            /\ tokenCache' = tokenCache
      /\ RefreshSucceeds(r)
         => LET d == req[r].resp.data
                lifetime == IF d.expires_in.has /\ d.expires_in.num # 0
                            THEN d.expires_in.num * 1000 ELSE 3600 * 1000
            IN /\ req'[r].tokenReqs = 1
               /\ req'[r].accessToken = d.access_token
               /\ tokenCache'.accessToken = d.access_token
               /\ tokenCache'.expiresAtMs = now + lifetime - 60000]_vars

\* C2 witness: a request has refreshed once, holds the token A1 that the
\* reply carried and the cache holds it too, expiring one minute from now
\* (a reported lifetime of 120 s).
C2_Witness ==
  \E r \in Requests :
    /\ req[r].pc = "events" /\ req[r].token = "refreshed" /\ req[r].tokenReqs = 1
    /\ req[r].accessToken = A1 /\ tokenCache.accessToken = A1
    /\ tokenCache.expiresAtMs = now + 120 * 1000 - 60000

\* The step in which the callback of request r resumes on a 2xx reply.
ExchangeSucceeds(r) ==
  req[r].pc = "exchangeReplied" /\ req[r].resp.ok /\ req'[r].pc = "done"

\* C4 as stated: after a successful code exchange the pair returned by the
\* provider is in tokenCache.
C4_Original ==
  [][\A r \in Requests :
      ExchangeSucceeds(r)
      => /\ tokenCache'.accessToken = req[r].resp.data.access_token
         /\ tokenCache'.refreshToken = req[r].resp.data.refresh_token]_vars

\* C4 amended: a successful code exchange is answered with one 200 response
\* and no step of the callback handler changes tokenCache: the pair is not
\* stored, and a later getPcoAccessToken reads the cache as it was.
C4_CallbackLeavesTokenCache ==
  [][\A r \in Requests :
      /\ (req[r].kind = "callback" \/ req'[r].kind = "callback") /\ req'[r] # req[r]
         => tokenCache' = tokenCache
      /\ ExchangeSucceeds(r)
         => req'[r].res.status = 200 /\ req'[r].sent = 1]_vars

\* C4 witness: a callback has ended with the page that lists the issued
\* access token A1 while the cache still holds the token A0 of the
\* environment.
C4_Witness ==
  \E r \in Requests :
    /\ req[r].kind = "callback" /\ req[r].pc = "done" /\ req[r].token = "exchanged"
    /\ req[r].res.status = 200 /\ req[r].res.type = "html"
    /\ req[r].res.PCO_ACCESS_TOKEN = A1
    /\ tokenCache.accessToken = A0

\* The deployment is configured with the sync secret s (plain or quoted).
SecretConfigured == env.SYNC_SECRET \in {<<"s">>, <<Q, "s", Q>>}

\* C5: when the expected sync secret is not configured (absent, or empty
\* after quote-stripping), every POST /sync is answered 500, ok:false, with the
\* misconfiguration error, whatever the x-sync-secret header (absent
\* included); never 401 or 200.
C5_UnconfiguredSecretIs500 ==
  \A r \in Requests :
    req[r].kind = "sync" /\ ~IsSet(env.SYNC_SECRET)
    => /\ req[r].pc = "done" /\ req[r].sent = 1
       /\ req[r].res = JsonError(500, MsgNoSecret)

\* C5 witness: the secret is configured as the empty string and a request
\* with an empty header (equal to it) has been answered 500.
C5_Witness ==
  \E r \in Requests :
    /\ env.SYNC_SECRET = <<>> /\ req[r].kind = "sync"
    /\ req[r].providedSecret = <<>> /\ req[r].res.status = 500

\* C6: when a sync secret is configured, POST /sync is answered 401 for every
\* x-sync-secret header that is not exactly the configured secret, the empty
\* string and an absent header included.
C6_MismatchIs401 ==
  \A r \in Requests :
    req[r].kind = "sync" /\ SecretConfigured /\ req[r].providedSecret # <<"s">>
    => /\ req[r].pc = "done" /\ req[r].sent = 1
       /\ req[r].res = JsonError(401, MsgUnauthorized)

\* C6 witness: with the secret configured in quotes, a request without the
\* header has been answered 401.
C6_Witness ==
  \E r \in Requests :
    /\ env.SYNC_SECRET = <<Q, "s", Q>> /\ req[r].kind = "sync"
    /\ req[r].providedSecret = Undefined /\ req[r].res.status = 401

\* C7: when a sync secret is configured and the header equals it exactly,
\* POST /sync proceeds to the orchestrator: it is never answered 401 or with
\* the SYNC_SECRET misconfiguration 500, and with the Airtable settings
\* present it has issued the Airtable read.
C7_MatchProceeds ==
  \A r \in Requests :
    req[r].kind = "sync" /\ SecretConfigured /\ req[r].providedSecret = <<"s">>
    => /\ req[r].res.status # 401
       /\ req[r].res # JsonError(500, MsgNoSecret)
       /\ (IsSet(env.AIRTABLE_API_KEY) /\ IsSet(env.AIRTABLE_BASE_ID)
           /\ IsSet(env.AIRTABLE_TABLE_NAME))
          => req[r].airtableReqs = 1 /\ req[r].airtable # "none"

\* C7 witness: with the secret configured in quotes, a request carrying the
\* unquoted secret waits for the Airtable read.
C7_Witness ==
  \E r \in Requests :
    /\ env.SYNC_SECRET = <<Q, "s", Q>> /\ req[r].providedSecret = <<"s">>
    /\ req[r].pc = "airtable" /\ req[r].airtableReqs = 1

\* A stage of the sync request r has failed.
SyncStageFailed(r) ==
  \/ req[r].airtable = "failed"
  \/ req[r].token \in {"threw", "failed"}
  \/ req[r].events = "failed"

\* C8: a POST /sync is all-or-nothing: a request sends at most one response,
\* and exactly one once it has ended; if the Airtable read, the token
\* acquisition or the events read has failed, the request has ended with a
\* 500, ok:false; ok:true is sent only with status 200 and only after both
\* reads succeeded.
C8_AllOrNothing ==
  \A r \in Requests :
    req[r].kind = "sync"
    => /\ req[r].sent = (IF req[r].pc = "done" THEN 1 ELSE 0)
       /\ SyncStageFailed(r)
          => /\ req[r].pc = "done" /\ req[r].res.status = 500
             /\ req[r].res.ok = FALSE
       /\ req[r].pc = "done"
          => /\ req[r].res.status \in {200, 401, 500}
             /\ req[r].res.ok = (req[r].res.status = 200)
             /\ req[r].res.status = 200
                => /\ req[r].airtable = "ok" /\ req[r].events = "ok"
                   /\ req[r].token \in {"cached", "fallback", "refreshed"}

\* C8 witness: a request whose Airtable read succeeded and whose token
\* refresh failed has ended with a 500.
C8_Witness ==
  \E r \in Requests :
    /\ req[r].kind = "sync" /\ req[r].pc = "done"
    /\ req[r].airtable = "ok" /\ req[r].token = "failed"
    /\ req[r].res.status = 500 /\ req[r].eventsReqs = 0

\* C9: GET /oauth/start with the client id or the redirect URI absent (or
\* empty after quote-stripping) is answered 500, ok:false, never a redirect,
\* for any debug value, and hasPCO_APP_ID / hasPCO_REDIRECT_URI are true
\* exactly for the settings that are present.
C9_StartMissingConfigIs500 ==
  \A r \in Requests :
    /\ req[r].kind = "start"
    /\ ~IsSet(env.PCO_APP_ID) \/ ~IsSet(env.PCO_REDIRECT_URI)
    => /\ req[r].pc = "done" /\ req[r].sent = 1
       /\ req[r].res.status = 500 /\ req[r].res.type = "json"
       /\ req[r].res.ok = FALSE
       /\ req[r].res.hasPCO_APP_ID = IsSet(env.PCO_APP_ID)
       /\ req[r].res.hasPCO_REDIRECT_URI = IsSet(env.PCO_REDIRECT_URI)

\* C9 witness: the redirect URI is missing, the client id is present, and a
\* request with debug=1 has been answered 500.
C9_Witness ==
  \E r \in Requests :
    /\ req[r].kind = "start" /\ req[r].debug = <<"1">>
    /\ IsSet(env.PCO_APP_ID) /\ ~IsSet(env.PCO_REDIRECT_URI)
    /\ req[r].res.status = 500 /\ req[r].res.hasPCO_REDIRECT_URI = FALSE

\* C10: GET /oauth/start with client id and redirect URI configured answers
\* 200 with a JSON body holding authUrl, and no redirect, when debug is "1",
\* and a 302 redirect to the authorize URL for every other debug value
\* (absent included); the URL carries the client id and the encoded redirect
\* URI.
C10_StartDebugOrRedirect ==
  \A r \in Requests :
    req[r].kind = "start" /\ IsSet(env.PCO_APP_ID) /\ IsSet(env.PCO_REDIRECT_URI)
    => LET url == IF req[r].debug = <<"1">> THEN req[r].res.authUrl
                  ELSE req[r].res.location
       IN /\ req[r].pc = "done" /\ req[r].sent = 1
          /\ IF req[r].debug = <<"1">>
             THEN req[r].res.status = 200 /\ req[r].res.type = "json"
             ELSE req[r].res.status = 302 /\ req[r].res.type = "redirect"
          /\ url.path = "https://api.planningcenteronline.com/oauth/authorize"
          /\ url.client_id = UrlEncode(stripQuotes(env.PCO_APP_ID))
          /\ url.redirect_uri = UrlEncode(stripQuotes(env.PCO_REDIRECT_URI))

\* C10 witness: a request with debug=11 has been redirected to an authorize
\* URL whose redirect URI is percent-encoded.
C10_Witness ==
  \E r \in Requests :
    /\ req[r].kind = "start" /\ req[r].debug = <<"1", "1">>
    /\ req[r].res.status = 302
    /\ req[r].res.location.redirect_uri = <<"u", "%", "2", "2", "v">>
\* C11: when an access token is cached and no refresh token is cached, every
\* getPcoAccessToken call returns the cached access token as it is, sends
\* nothing to the token endpoint and leaves tokenCache unchanged, at any time
\* and for any number of calls.
C11_NoRefreshTokenReturnsCached ==
  [][\A r \in Requests :
      (/\ CallsGetPcoAccessToken(r)
       /\ tokenCache.accessToken \notin {Undefined, <<>>}
       /\ tokenCache.refreshToken \in {Undefined, <<>>})
      => /\ req'[r].pc = "events"
         /\ req'[r].accessToken = tokenCache.accessToken
         /\ req'[r].tokenReqs = 0
         /\ tokenCache' = tokenCache]_vars

\* C11 witness: two minutes after the start, with no refresh token cached,
\* both requests hold the access token of the environment and neither has
\* made a token request.
C11_Witness ==
  /\ tokenCache.refreshToken = <<>> /\ tokenCache.accessToken = A0
  /\ now = StartMs + 2 * TickMs
  /\ \A r \in Requests :
       /\ req[r].pc = "events" /\ req[r].token = "fallback"
       /\ req[r].accessToken = A0 /\ req[r].tokenReqs = 0

\* C12: a successful refresh replaces tokenCache.refreshToken only when the
\* reply carries a refresh token that is non-empty and differs from the cached
\* one; when the reply carries none, or the same one, the cached refresh token
\* stays.
C12_RefreshTokenReplacedOnlyIfNew ==
  [][\A r \in Requests :
      RefreshSucceeds(r)
      => LET issued == req[r].resp.data.refresh_token IN
         tokenCache'.refreshToken =
           IF issued \notin {Undefined, <<>>} /\ issued # tokenCache.refreshToken
           THEN issued ELSE tokenCache.refreshToken]_vars

\* C12 witness: a refresh has completed and the cache holds the new refresh
\* token R1 instead of the R0 of the environment.
C12_Witness ==
  /\ stripQuotes(env.PCO_REFRESH_TOKEN) = R0 /\ tokenCache.refreshToken = R1
  /\ \E r \in Requests : req[r].pc = "events" /\ req[r].token = "refreshed"
\* C13: GET /oauth/callback without a code is answered 400 with no request to
\* the token endpoint; with a code whose exchange fails it is answered 500
\* with the text "OAuth failed" after one request; in both cases one response
\* is sent and no step of the handler changes tokenCache.
C13_CallbackFailures ==
  [][\A r \in Requests :
      req'[r].kind = "callback" /\ req'[r] # req[r]
      => /\ tokenCache' = tokenCache
         /\ req'[r].code \in {Undefined, <<>>}
            => /\ req'[r].pc = "done" /\ req'[r].sent = 1
               /\ req'[r].res.status = 400 /\ req'[r].tokenReqs = 0
         /\ (req[r].pc = "exchangeReplied" /\ ~req[r].resp.ok)
            => /\ req'[r].pc = "done" /\ req'[r].sent = 1
               /\ req'[r].res = [status |-> 500, type |-> "text",
                                 body |-> "OAuth failed"]
               /\ req'[r].tokenReqs = 1]_vars

\* C13 witness: one callback without a code has been answered 400 and one
\* whose exchange failed has been answered 500, with the cache as loaded
\* from the environment.
C13_Witness ==
  /\ tokenCache = [accessToken |-> A0, refreshToken |-> R0, expiresAtMs |-> 0]
  /\ \E r, o \in Requests :
       /\ req[r].kind = "callback" /\ req[r].code = Undefined
       /\ req[r].res.status = 400 /\ req[r].tokenReqs = 0
       /\ req[o].kind = "callback" /\ req[o].token = "failed"
       /\ req[o].res.status = 500 /\ req[o].tokenReqs = 1

\* A refresh request of r is outstanding or its reply waits to be processed.
RefreshInFlight(r) == req[r].pc \in {"refresh", "refreshReplied"}

\* C14: a getPcoAccessToken call that finds the cache expired with a refresh
\* token cached sends its own refresh request even while another request has
\* a refresh in flight; every refresh that completes writes the accessToken
\* and expiresAtMs of its own reply over whatever the cache holds, and nothing
\* else writes the cache: after both have completed the cache holds the values
\* of the refresh that completed last.
C14_LastWriterWins ==
  [][/\ \A r \in Requests :
          /\ (/\ CallsGetPcoAccessToken(r)
              /\ \E o \in Requests \ {r} : RefreshInFlight(o)
              /\ ~(/\ tokenCache.accessToken \notin {Undefined, <<>>}
                   /\ tokenCache.expiresAtMs # 0 /\ now < tokenCache.expiresAtMs)
              /\ tokenCache.refreshToken \notin {Undefined, <<>>}
              /\ IsSet(env.PCO_APP_ID) /\ IsSet(env.PCO_SECRET))
             => req'[r].pc = "refresh" /\ req'[r].tokenReqs = 1
          /\ RefreshSucceeds(r)
             => LET d == req[r].resp.data
                    lifetime == IF d.expires_in.has /\ d.expires_in.num # 0
                                THEN d.expires_in.num * 1000 ELSE 3600 * 1000
                IN /\ tokenCache'.accessToken = d.access_token
                   /\ tokenCache'.expiresAtMs = now + lifetime - 60000
     /\ tokenCache' # tokenCache => \E r \in Requests : RefreshSucceeds(r)]_vars

\* C14 witness: both requests have a refresh exchange in flight at once.
C14_Witness ==
  /\ \A r \in Requests : req[r].pc = "refresh" /\ req[r].tokenReqs = 1
  /\ tokenCache.expiresAtMs = 0

\* C14, the outcome: both requests have refreshed before any time passed, A
\* was handed A1 and B was handed A2, and the cache holds A2 with B's expiry.
\* A1 in the cache would have been fresh for B's call, so B called before A's
\* refresh completed and B's refresh completed last.
C14_BothCompleted ==
  /\ now = StartMs
  /\ req["A"].token = "refreshed" /\ req["A"].accessToken = A1
  /\ req["B"].token = "refreshed" /\ req["B"].accessToken = A2
  /\ tokenCache.accessToken = A2
\* The step in which the refresh of request r resumes on a failed request (a
\* network error or a non-2xx reply).
RefreshFails(r) ==
  req[r].pc = "refreshReplied" /\ ~req[r].resp.ok /\ req'[r] # req[r]

\* C15: when the refresh request fails, getPcoAccessToken fails after exactly
\* one token request: the request ends with the 500 carrying that failure, no
\* second token request and no events request with the stale token is sent,
\* and neither step of the call (sending the request, handling the failure)
\* changes tokenCache.
C15_RefreshFailureNoRetryNoFallback ==
  [][\A r \in Requests :
      /\ RefreshFails(r)
         => /\ req'[r].pc = "done" /\ req'[r].sent = 1
            /\ req'[r].res = JsonError(500, MsgTokenFailed)
            /\ req'[r].tokenReqs = 1 /\ req'[r].eventsReqs = 0
            /\ tokenCache' = tokenCache
      /\ (req[r].pc = "airtable" /\ req'[r].pc = "refresh")
         => tokenCache' = tokenCache]_vars

\* C15 witness: a sync request has ended 500 after one failed token request,
\* without an events request, and the cache is as loaded from the environment.
C15_Witness ==
  /\ tokenCache = [accessToken |-> A0, refreshToken |-> R0, expiresAtMs |-> 0]
  /\ \E r \in Requests :
       /\ req[r].kind = "sync" /\ req[r].pc = "done" /\ req[r].token = "failed"
       /\ req[r].tokenReqs = 1 /\ req[r].eventsReqs = 0
       /\ req[r].res = JsonError(500, MsgTokenFailed)

\* C16: whenever getPcoAccessToken returns normally (the events request is
\* sent with its result), the returned value is a non-empty token string,
\* whatever the token endpoint replied.
C16_ReturnedTokenNonEmpty ==
  \A r \in Requests :
    req[r].pc = "events" => req[r].accessToken \notin {Undefined, <<>>}
\* The responses of the secret gate of POST /sync.
GateRejections == {JsonError(500, MsgNoSecret), JsonError(401, MsgUnauthorized)}

\* Request r has made no outbound call.
NoOutboundCalls(q) == q.airtableReqs = 0 /\ q.tokenReqs = 0 /\ q.eventsReqs = 0

\* C17: a POST /sync request rejected at the secret gate (500 or 401) has made
\* no call to Airtable, the token endpoint or the events endpoint, and the step
\* that rejects it leaves tokenCache unchanged; a POST /sync request that has
\* made any outbound call carried a header equal to the configured secret.
C17_GateBlocksOutboundCalls ==
  [][\A r \in Requests :
      req'[r].kind = "sync" =>
        /\ req'[r].res \in GateRejections => NoOutboundCalls(req'[r])
        /\ (req[r].pc = "idle" /\ req'[r].res \in GateRejections)
             => tokenCache' = tokenCache
        /\ ~NoOutboundCalls(req'[r])
             => /\ Truthy(stripQuotes(env.SYNC_SECRET))
                /\ req'[r].providedSecret = stripQuotes(env.SYNC_SECRET)]_vars

\* C17 witness: one request has been rejected 401 without any outbound call
\* while another, carrying the configured secret, has made its calls.
C17_Witness ==
  \E r, s \in Requests :
    /\ req[r].kind = "sync" /\ req[r].res = JsonError(401, MsgUnauthorized)
    /\ req[r].providedSecret # stripQuotes(env.SYNC_SECRET)
    /\ NoOutboundCalls(req[r])
    /\ req[s].kind = "sync" /\ req[s].providedSecret = stripQuotes(env.SYNC_SECRET)
    /\ req[s].airtableReqs = 1 /\ req[s].tokenReqs = 1 /\ req[s].eventsReqs = 1

\* C18: in a POST /sync request the token is acquired only once the Airtable
\* read has succeeded: while that read has not succeeded (configuration
\* missing, read in flight or failed) the request has made no token request
\* and no events request and its steps leave tokenCache unchanged; and the
\* events request is sent only once getPcoAccessToken has returned, carrying
\* the token it returned.
C18_RecordsBeforeToken ==
  [][\A r \in Requests :
      req'[r].kind = "sync" =>
        /\ req'[r].airtable # "ok"
             => /\ req'[r].tokenReqs = 0 /\ req'[r].eventsReqs = 0
                /\ req'[r].token = "none" /\ req'[r].events = "none"
                /\ req'[r] # req[r] => tokenCache' = tokenCache
        /\ req'[r].eventsReqs > 0
             => req'[r].token \in {"cached", "fallback", "refreshed"}
        /\ req'[r].eventsReqs > req[r].eventsReqs
             => req'[r].accessToken = tokenCache'.accessToken]_vars

\* C18 witness: one request has ended 500 on a failed Airtable read without a
\* token or events request; another has sent its events request after a refresh.
C18_Witness ==
  \E r, s \in Requests :
    /\ req[r].kind = "sync" /\ req[r].pc = "done" /\ req[r].airtable = "failed"
    /\ req[r].res = JsonError(500, MsgAirtableFailed)
    /\ req[r].tokenReqs = 0 /\ req[r].eventsReqs = 0
    /\ req[s].kind = "sync" /\ req[s].airtable = "ok"
    /\ req[s].token = "refreshed" /\ req[s].eventsReqs = 1

\* C19: in every reachable state a non-zero tokenCache.expiresAtMs implies a
\* non-empty tokenCache.refreshToken, and no step turns a non-empty
\* refreshToken into an empty one.
C19_ExpiryImpliesRefreshToken ==
  /\ tokenCache.expiresAtMs # 0 => Truthy(tokenCache.refreshToken)
  /\ [][/\ tokenCache'.expiresAtMs # 0 => Truthy(tokenCache'.refreshToken)
        /\ Truthy(tokenCache.refreshToken) => Truthy(tokenCache'.refreshToken)]_vars

\* C19 witness: a refresh whose reply carried no refresh token has set the
\* expiry, after an earlier refresh had replaced the refresh token.
C19_Witness ==
  /\ tokenCache.expiresAtMs # 0
  /\ tokenCache.refreshToken = R1
  /\ tokenCache.accessToken = A1
====
